---- MODULE Spec2Model ----
(***************************************************************************)
(* Model of examples/libriheavy/matching.py: the batch controller main(),  *)
(* process_one_batch() and its four stages load_data, align, split, write. *)
(* The textsearch library calls (align_queries, split_aligned_queries,     *)
(* texts_to_sourced_texts, append_texts) are modelled at their interface.  *)
(* Python indices are kept 0-based in the values (cut_indexes, record      *)
(* numbers); TLA+ sequences are 1-based, so batch_cuts[i] of the code is   *)
(* batch_cuts[i + 1] here.                                                 *)
(***************************************************************************)
EXTENDS Integers, Sequences, FiniteSets, TLC

\* ------------------------------------------------------------- bounds
MaxStream == 3
MaxBatchSize == 2
MaxSegs == 1
MaxDrift == 1
MaxResults == 2

\* ------------------------------------------------------- input universe
\* Reference book paths cited by the manifest.
Paths == {"book_a", "book_b"}

\* A supervision: the number of symbols of sup.alignment["symbol"] and the
\* attributes write() copies.
Sup(n, spk) == [ntokens |-> n, channel |-> 0, language |-> "en", speaker |-> spk]

\* The kinds of manifest record (MonoCut without its id) a stream is made of.
CutKinds ==
  { [text_path |-> "book_a", channel |-> 0, supervisions |-> <<Sup(0, "s1")>>],
    [text_path |-> "book_a", channel |-> 0,
       supervisions |-> <<Sup(1, "s1"), Sup(2, "s2")>>],
    [text_path |-> "book_b", channel |-> 1,
       supervisions |-> <<Sup(0, "s1"), Sup(1, "s2")>>] }

\* load_manifest_lazy: the cut at position k of the manifest; ids are distinct.
MakeCut(k, kind) ==
  [id |-> k, text_path |-> kind.text_path, channel |-> kind.channel,
   recording |-> <<"rec", k>>, supervisions |-> kind.supervisions]

VARIABLES
  raw_cuts,      \* the input manifest (sequence of cuts), fixed
  files,         \* the reference paths that exist on disk, fixed
  batch_size,    \* params.batch_size
  pos,           \* number of cuts the for loop of main() has fetched
  batch_cuts,    \* main(): the batch being filled / processed
  pc,            \* position of the controller thread
  final,         \* is the running process_one_batch the call after the loop
  raw_data,      \* process_one_batch: result of load_data
  aligned_data,  \* process_one_batch: result of align
  splited_data,  \* process_one_batch: result of split
  align_tasks,   \* thread pool: state of each per-query alignment task
  split_tasks,   \* process pool: state of each per-alignment split task
  opens,         \* number of open() calls per path in the running load_data
  mismatch,      \* the token-count comparison of the running load_data failed
  out,           \* cuts_writer: the write calls so far
  batches,       \* the batches handed to process_one_batch so far (cut ids)
  events,        \* stage calls and returns so far
  pools,         \* main(): the pools created and the locals that hold them
  pool_calls     \* the pools each call of process_one_batch, align, split got

vars == <<raw_cuts, files, batch_size, pos, batch_cuts, pc, final, raw_data,
          aligned_data, splited_data, align_tasks, split_tasks, opens,
          mismatch, out, batches, events, pools, pool_calls>>

\* ------------------------------------------------------------ helpers
Range(s) == {s[k] : k \in 1..Len(s)}

RECURSIVE SumSeq(_)
SumSeq(s) == IF s = <<>> THEN 0 ELSE s[1] + SumSeq(Tail(s))

RECURSIVE Flatten(_)
Flatten(ss) == IF ss = <<>> THEN <<>> ELSE ss[1] \o Flatten(Tail(ss))

Count(s, x) == Cardinality({k \in 1..Len(s) : s[k] = x})

Ids(cuts) == [k \in 1..Len(cuts) |-> cuts[k].id]

\* --------------------------------------------------------- load_data
\* os.path.isfile(cut.text_path)
IsFile(p) == p \in files

\* Transcript.from_dict(...).binary_text.size for a supervision with n symbols:
\* one token per symbol (spec 3, "Document: an ordered sequence of Tokens").
BinarySize(n) == n

\* (the tag counting the transcripts kept instead of the supervisions seen)
CutTranscriptsRenumbered(i, cut) ==
  LET all == [j \in 1..Len(cut.supervisions) |->
                [cut_index |-> <<i, j - 1>>,
                 ntokens |-> cut.supervisions[j].ntokens,
                 size |-> cut.supervisions[j].ntokens]]
      kept == SelectSeq(all, LAMBDA t : t.ntokens > 0)
  IN [k \in 1..Len(kept) |-> [kept[k] EXCEPT !.cut_index = <<i, k - 1>>]]

\* The inner loop over cut.supervisions: one transcript per supervision whose
\* alignment is not empty, tagged (i, j).
CutTranscripts(i, cut) ==
  LET all == [j \in 1..Len(cut.supervisions) |->
                [cut_index |-> <<i, j - 1>>,
                 ntokens |-> cut.supervisions[j].ntokens,
                 size |-> BinarySize(cut.supervisions[j].ntokens)]]
  IN SelectSeq(all, LAMBDA t : t.ntokens > 0)

\* (the loop left at the first missing book instead of going on)
TranscriptsUntilMissing(cuts) ==
  LET RECURSIVE From(_)
      From(i) ==
        IF i > Len(cuts) \/ ~(cuts[i].text_path \in files) THEN <<>>
        ELSE LET all == [j \in 1..Len(cuts[i].supervisions) |->
                           [cut_index |-> <<i - 1, j - 1>>,
                            ntokens |-> cuts[i].supervisions[j].ntokens,
                            size |-> cuts[i].supervisions[j].ntokens]]
             IN SelectSeq(all, LAMBDA t : t.ntokens > 0) \o From(i + 1)
  IN From(1)

\* The outer loop: cuts whose book is missing are skipped.
Transcripts(cuts) ==
  Flatten([i \in 1..Len(cuts) |->
             IF IsFile(cuts[i].text_path)
               THEN CutTranscripts(i - 1, cuts[i]) ELSE <<>>])

\* book_paths.add(path) on the paths collected so far (a Python set).
AddPathList(coll, p) == Append(coll, p)
AddPath(coll, p) == IF p \in Range(coll) THEN coll ELSE Append(coll, p)

\* book_paths after the first k cuts of the loop.
RECURSIVE BookPaths(_, _)
BookPaths(cuts, k) ==
  IF k = 0 THEN <<>>
  ELSE IF IsFile(cuts[k].text_path)
         THEN AddPath(BookPaths(cuts, k - 1), cuts[k].text_path)
         ELSE BookPaths(cuts, k - 1)

\* The loop over book_paths: one open() and one TextSource.from_str per element.
BookOpens(cuts) ==
  [p \in Paths |-> Count(BookPaths(cuts, Len(cuts)), p)]

\* num_query_tokens accumulated over the transcripts built.
NumQueryTokens(ts) == SumSeq([k \in 1..Len(ts) |-> ts[k].size])

\* append_texts: the boundary table of the concatenated documents, doc_splits[0]
\* = 0 and doc_splits[k] = total length of the first k documents.
DocSplits(lens) ==
  [k \in 1..(Len(lens) + 1) |-> SumSeq(SubSeq(lens, 1, k - 1))]

\* texts_to_sourced_texts: the lengths of the query documents in the sourced
\* text; d is the number of tokens by which the conversion of the last
\* document departs from binary_text.size (0 unless the construction is wrong).
SourcedLens(ts, d) ==
  [k \in 1..Len(ts) |-> IF k = Len(ts) THEN ts[k].size + d ELSE ts[k].size]

\* The assertion of load_data.
TokenCountUnchecked(n, doc_splits, ntranscripts) == TRUE
TokenCountCheck(n, doc_splits, ntranscripts) == n = doc_splits[ntranscripts + 1]

\* The controller position after a failed assertion: AssertionError propagates
\* out of process_one_batch and main().
MismatchSkipsBatch == "ret"
OnMismatch == "raised"

\* load_data returns {} when no transcript was built.
NoData == [num_query_tokens |-> 0, cut_indexes |-> <<>>, doc_splits |-> <<>>]
DataLen(raw) == IF raw.cut_indexes = <<>> THEN 0 ELSE 3

\* ------------------------------------------------------------- align
\* align_queries submits one task per query document to the thread pool.
AlignSubmitted(raw) == [q \in 1..Len(raw.cut_indexes) |-> "pending"]

\* starmap-style fan-in of align_queries: every task has finished.
AlignAllDone(tasks) == \A q \in 1..Len(tasks) : tasks[q] # "pending"

\* The alignment of query document q (0-based): its anchor in the sourced text
\* and the document it was computed from.
Alignment(raw, q) == [doc |-> q, query_start |-> raw.doc_splits[q + 1]]

\* The list align_queries returns: one alignment per query that passed
\* min_matched_query_ratio, in document order; a rejected query is removed.
AlignResults(raw, tasks) ==
  LET all == [q \in 1..Len(tasks) |-> [a |-> Alignment(raw, q - 1), st |-> tasks[q]]]
      kept == SelectSeq(all, LAMBDA x : x.st = "ok")
  IN [k \in 1..Len(kept) |-> kept[k].a]

\* ------------------------------------------------------------- split
\* split_aligned_queries submits one task per alignment to the process pool.
SplitSubmitted(alignments) ==
  [k \in 1..Len(alignments) |-> [st |-> "pending", n |-> 0]]

\* (the results collected without waiting for the tasks)
SplitNoBarrier(tasks) == TRUE
SplitAllDone(tasks) == \A k \in 1..Len(tasks) : tasks[k].st # "pending"

\* The n-th segment (0-based) cut from the query tagged src = (i, j): the dict
\* documented in split().
Segment(src, n) ==
  [begin_byte |-> 100 * src[1] + 10 * src[2] + n,
   end_byte |-> 100 * src[1] + 10 * src[2] + n + 5,
   start_time |-> 30 * n,
   duration |-> 2 + n,
   hyp |-> <<"hyp", src, n>>,
   ref |-> <<"ref", src, n>>,
   pre_ref |-> <<"pre_ref", src, n>>,
   pre_hyp |-> <<"pre_hyp", src, n>>,
   post_ref |-> <<"post_ref", src, n>>,
   post_hyp |-> <<"post_hyp", src, n>>]

\* The segments a finished task contributes: those of the query its alignment
\* was computed from; a task whose worker raised contributes none.
TaskSegments(raw, alignment, task) ==
  IF task.st = "done"
    THEN [s \in 1..task.n |-> Segment(raw.cut_indexes[alignment.doc + 1], s - 1)]
    ELSE <<>>

\* What an exception in one split worker does to the batch: it is logged and
\* the batch goes on.
WorkerErrorAborts == "raised"
OnWorkerError == "continue"

\* The list split_aligned_queries returns: (cut_indexes[k], segments) for the
\* k-th alignment, queries without a segment dropped.
SplitResults(raw, alignments, tasks) ==
  LET all == [k \in 1..Len(alignments) |->
                <<raw.cut_indexes[k], TaskSegments(raw, alignments[k], tasks[k])>>]
  IN SelectSeq(all, LAMBDA r : r[2] # <<>>)

\* ------------------------------------------------------------- write
\* The custom block of the SupervisionSegment built for a segment.
Custom(seg) ==
  [texts |-> <<seg.ref, seg.hyp>>,
   pre_texts |-> <<seg.pre_ref, seg.pre_hyp>>,
   post_texts |-> <<seg.post_ref, seg.post_ref>>,
   begin_byte |-> seg.begin_byte,
   end_byte |-> seg.end_byte]

\* results flattened to one (cut_indexes, seg) pair per segment, in loop order.
SegPairs(results) ==
  Flatten([r \in 1..Len(results) |->
             [s \in 1..Len(results[r][2]) |->
                [cut_indexes |-> results[r][1], seg |-> results[r][2][s]]]])

\* (one counter for the whole batch instead of one per cut id)
SegmentIndexGlobal(cuts, pairs, k) == k - 1

\* cut_segment_index[current_cut.id] when the k-th pair is reached: the number
\* of earlier segments of a cut with the same id.
SegmentIndex(cuts, pairs, k) ==
  Cardinality({p \in 1..(k - 1) :
                 cuts[pairs[p].cut_indexes[1] + 1].id
                   = cuts[pairs[k].cut_indexes[1] + 1].id})

\* (the attributes taken from the cut's first supervision)
NewCutFirstSup(cuts, pairs, k) ==
  LET ci == pairs[k].cut_indexes
      seg == pairs[k].seg
      current_cut == cuts[ci[1] + 1]
      id == <<current_cut.id, SegmentIndex(cuts, pairs, k)>>
      sup == current_cut.supervisions[1]
  IN [id |-> id,
      start |-> seg.start_time,
      duration |-> seg.duration,
      channel |-> current_cut.channel,
      supervisions |->
        <<[id |-> id, channel |-> sup.channel, language |-> sup.language,
           speaker |-> sup.speaker, recording_id |-> current_cut.recording,
           start |-> 0, duration |-> seg.duration, custom |-> Custom(seg)]>>,
      recording |-> current_cut.recording,
      custom |-> [text_path |-> current_cut.text_path]]

\* The MonoCut built for the k-th pair.
NewCut(cuts, pairs, k) ==
  LET ci == pairs[k].cut_indexes
      seg == pairs[k].seg
      current_cut == cuts[ci[1] + 1]
      id == <<current_cut.id, SegmentIndex(cuts, pairs, k)>>
      sup == current_cut.supervisions[ci[2] + 1]
  IN [id |-> id,
      start |-> seg.start_time,
      duration |-> seg.duration,
      channel |-> current_cut.channel,
      supervisions |->
        <<[id |-> id, channel |-> sup.channel, language |-> sup.language,
           speaker |-> sup.speaker, recording_id |-> current_cut.recording,
           start |-> 0, duration |-> seg.duration, custom |-> Custom(seg)]>>,
      recording |-> current_cut.recording,
      custom |-> [text_path |-> current_cut.text_path]]

\* cut_list of write().
CutList(cuts, results) ==
  LET pairs == SegPairs(results)
  IN [k \in 1..Len(pairs) |-> NewCut(cuts, pairs, k)]

\* (every call flushing)
WriteCallsFlushAll(cuts, results, b) ==
  LET cut_list == CutList(cuts, results)
  IN [i \in 1..Len(cut_list) |-> [batch |-> b, cut |-> cut_list[i], flush |-> TRUE]]

\* (the write loop stopping one cut early)
WriteCallsButLast(cuts, results, b) ==
  LET cut_list == CutList(cuts, results)
  IN [i \in 1..(Len(cut_list) - 1) |->
        [batch |-> b, cut |-> cut_list[i], flush |-> (i = Len(cut_list) - 1)]]

\* The cuts_writer.write calls of write(): flush only on the last cut.
WriteCalls(cuts, results, b) ==
  LET cut_list == CutList(cuts, results)
  IN [i \in 1..Len(cut_list) |->
        [batch |-> b, cut |-> cut_list[i], flush |-> (i = Len(cut_list))]]

\* ------------------------------------------------- process_one_batch
\* The early returns of process_one_batch.
AfterLoad(raw) == IF DataLen(raw) = 0 THEN "ret" ELSE "align"
AfterAlignNoCheck(alignments) == "split"
AfterAlignSkipsSplit(alignments) == IF Len(alignments) = 0 THEN "ret" ELSE "write"
AfterAlign(alignments) == IF Len(alignments) = 0 THEN "ret" ELSE "split"
AfterSplit(segments) == IF Len(segments) = 0 THEN "ret" ELSE "write"

\* (align handed the process pool)
AlignPoolSwapped == pools.process_pool

\* The pools process_one_batch hands on: align gets its thread_pool parameter,
\* split its process_pool parameter.
AlignPool == pools.thread_pool
SplitPool == pools.process_pool

PoolCall(callee, args) == [batch |-> Len(batches), callee |-> callee, args |-> args]

Event(stage, kind) == [batch |-> Len(batches), stage |-> stage, kind |-> kind]

LoadData ==
  /\ pc = "load"
  /\ LET ts == Transcripts(batch_cuts)
         n == NumQueryTokens(ts)
         ev == events \o <<Event("load_data", "call")>>
     IN /\ opens' = BookOpens(batch_cuts)
        /\ IF ts = <<>>
             THEN /\ raw_data' = NoData
                  /\ mismatch' = FALSE
                  /\ pc' = AfterLoad(NoData)
                  /\ events' = ev \o <<Event("load_data", "return")>>
             ELSE \E d \in 0..MaxDrift :
                    LET doc_splits == DocSplits(SourcedLens(ts, d))
                        raw == [num_query_tokens |-> n,
                                cut_indexes |-> [k \in 1..Len(ts) |-> ts[k].cut_index],
                                doc_splits |-> doc_splits]
                    IN /\ mismatch' = (d # 0)
                       /\ IF TokenCountCheck(n, doc_splits, Len(ts))
                            THEN /\ raw_data' = raw
                                 /\ pc' = AfterLoad(raw)
                                 /\ events' = ev \o <<Event("load_data", "return")>>
                            ELSE /\ raw_data' = NoData
                                 /\ pc' = OnMismatch
                                 /\ events' = ev \o <<Event("load_data", "raise")>>
  /\ UNCHANGED <<pools, pool_calls,
                 raw_cuts, files, batch_size, pos, batch_cuts, final, aligned_data,
                 splited_data, align_tasks, split_tasks, out, batches>>

AlignCall ==
  /\ pc = "align"
  /\ align_tasks' = AlignSubmitted(raw_data)
  /\ pool_calls' = pool_calls \cup {PoolCall("align", <<AlignPool>>)}
  /\ events' = Append(events, Event("align", "call"))
  /\ pc' = "align_wait"
  /\ UNCHANGED <<pools,
                 raw_cuts, files, batch_size, pos, batch_cuts, final, raw_data,
                 aligned_data, splited_data, split_tasks, opens, mismatch, out,
                 batches>>

\* One alignment task finishes: the query is matched or fails the ratio.
AlignWorker ==
  /\ \E q \in 1..Len(align_tasks) :
       /\ align_tasks[q] = "pending"
       /\ \E r \in {"ok", "rejected"} :
            align_tasks' = [align_tasks EXCEPT ![q] = r]
  /\ UNCHANGED <<pools, pool_calls,
                 raw_cuts, files, batch_size, pos, batch_cuts, pc, final, raw_data,
                 aligned_data, splited_data, split_tasks, opens, mismatch, out,
                 batches, events>>

AlignReturn ==
  /\ pc = "align_wait"
  /\ AlignAllDone(align_tasks)
  /\ aligned_data' = AlignResults(raw_data, align_tasks)
  /\ events' = Append(events, Event("align", "return"))
  /\ pc' = AfterAlign(aligned_data')
  /\ UNCHANGED <<pools, pool_calls,
                 raw_cuts, files, batch_size, pos, batch_cuts, final, raw_data,
                 splited_data, align_tasks, split_tasks, opens, mismatch, out,
                 batches>>

SplitCall ==
  /\ pc = "split"
  /\ split_tasks' = SplitSubmitted(aligned_data)
  /\ pool_calls' = pool_calls \cup {PoolCall("split", <<SplitPool>>)}
  /\ events' = Append(events, Event("split", "call"))
  /\ pc' = "split_wait"
  /\ UNCHANGED <<pools,
                 raw_cuts, files, batch_size, pos, batch_cuts, final, raw_data,
                 aligned_data, splited_data, align_tasks, opens, mismatch, out,
                 batches>>

\* One split task finishes: it yields 0..MaxSegs segments or its worker raises.
SplitWorker ==
  /\ \E k \in 1..Len(split_tasks) :
       /\ split_tasks[k].st = "pending"
       /\ \/ \E n \in 0..MaxSegs :
               split_tasks' = [split_tasks EXCEPT ![k] = [st |-> "done", n |-> n]]
          \/ split_tasks' = [split_tasks EXCEPT ![k] = [st |-> "failed", n |-> 0]]
  /\ UNCHANGED <<pools, pool_calls,
                 raw_cuts, files, batch_size, pos, batch_cuts, pc, final, raw_data,
                 aligned_data, splited_data, align_tasks, opens, mismatch, out,
                 batches, events>>

SplitReturn ==
  /\ pc = "split_wait"
  /\ SplitAllDone(split_tasks)
  /\ IF (\E k \in 1..Len(split_tasks) : split_tasks[k].st = "failed")
          /\ OnWorkerError = "raised"
       THEN /\ pc' = "raised"
            /\ events' = Append(events, Event("split", "raise"))
            /\ UNCHANGED splited_data
       ELSE /\ splited_data' = SplitResults(raw_data, aligned_data, split_tasks)
            /\ events' = Append(events, Event("split", "return"))
            /\ pc' = AfterSplit(splited_data')
  /\ UNCHANGED <<pools, pool_calls,
                 raw_cuts, files, batch_size, pos, batch_cuts, final, raw_data,
                 aligned_data, align_tasks, split_tasks, opens, mismatch, out,
                 batches>>

Write ==
  /\ pc = "write"
  /\ out' = out \o WriteCalls(batch_cuts, splited_data, Len(batches))
  /\ events' = events \o <<Event("write", "call"), Event("write", "return")>>
  /\ pc' = "ret"
  /\ UNCHANGED <<pools, pool_calls,
                 raw_cuts, files, batch_size, pos, batch_cuts, final, raw_data,
                 aligned_data, splited_data, align_tasks, split_tasks, opens,
                 mismatch, batches>>

\* -------------------------------------------------------------- main
\* The locals of a fresh process_one_batch call.
CallProcessOneBatch(isFinal) ==
  /\ pc' = "load"
  /\ final' = isFinal
  /\ batches' = Append(batches, Ids(batch_cuts))
  /\ raw_data' = NoData
  /\ aligned_data' = <<>>
  /\ splited_data' = <<>>
  /\ align_tasks' = <<>>
  /\ split_tasks' = <<>>
  /\ opens' = [p \in Paths |-> 0]
  /\ mismatch' = FALSE
  /\ pool_calls' =
       pool_calls \cup
         {[batch |-> Len(batches) + 1, callee |-> "process_one_batch",
           args |-> <<pools.thread_pool, pools.process_pool>>]}

\* len(batch_cuts) < params.batch_size
HasRoomOffByOne(batch, size) == Len(batch) <= size
HasRoom(batch, size) == Len(batch) < size

\* No pool exists before main() creates it; a pool is named by its position in
\* pools.created.
NoPools == [created |-> <<>>, thread_pool |-> 0, process_pool |-> 0]
BothPools == [created |-> <<"ThreadPool", "Pool">>, thread_pool |-> 1, process_pool |-> 2]

\* thread_pool = ThreadPool()
CreateThreadPool ==
  /\ pc = "thread_pool"
  /\ pools' = [pools EXCEPT !.created = Append(@, "ThreadPool"),
                            !.thread_pool = Len(pools.created) + 1]
  /\ pc' = "process_pool"
  /\ UNCHANGED <<pool_calls, raw_cuts, files, batch_size, pos, batch_cuts, final,
                 raw_data, aligned_data, splited_data, align_tasks, split_tasks,
                 opens, mismatch, out, batches, events>>

\* process_pool = Pool()
CreateProcessPool ==
  /\ pc = "process_pool"
  /\ pools' = [pools EXCEPT !.created = Append(@, "Pool"),
                            !.process_pool = Len(pools.created) + 1]
  /\ pc' = "loop"
  /\ UNCHANGED <<pool_calls, raw_cuts, files, batch_size, pos, batch_cuts, final,
                 raw_data, aligned_data, splited_data, align_tasks, split_tasks,
                 opens, mismatch, out, batches, events>>

\* Loop body, if-branch: the cut joins the batch.
MainAppend ==
  /\ pc = "loop"
  /\ pos < Len(raw_cuts)
  /\ HasRoom(batch_cuts, batch_size)
  /\ batch_cuts' = Append(batch_cuts, raw_cuts[pos + 1])
  /\ pos' = pos + 1
  /\ UNCHANGED <<pools, pool_calls,
                 raw_cuts, files, batch_size, pc, final, raw_data, aligned_data,
                 splited_data, align_tasks, split_tasks, opens, mismatch, out,
                 batches, events>>

\* Loop body, else-branch: the full batch is processed; the cut just fetched is
\* not appended to any batch.
MainProcess ==
  /\ pc = "loop"
  /\ pos < Len(raw_cuts)
  /\ ~HasRoom(batch_cuts, batch_size)
  /\ pos' = pos + 1
  /\ CallProcessOneBatch(FALSE)
  /\ UNCHANGED <<pools,
                 raw_cuts, files, batch_size, batch_cuts, out, events>>

\* After the loop: the remainder is processed.
MainFinal ==
  /\ pc = "loop"
  /\ pos = Len(raw_cuts)
  /\ Len(batch_cuts) > 0
  /\ CallProcessOneBatch(TRUE)
  /\ UNCHANGED <<pools,
                 raw_cuts, files, batch_size, pos, batch_cuts, out, events>>

MainExit ==
  /\ pc = "loop"
  /\ pos = Len(raw_cuts)
  /\ Len(batch_cuts) = 0
  /\ pc' = "done"
  /\ UNCHANGED <<pools, pool_calls,
                 raw_cuts, files, batch_size, pos, batch_cuts, final, raw_data,
                 aligned_data, splited_data, align_tasks, split_tasks, opens,
                 mismatch, out, batches, events>>

\* (the batch kept after it was processed)
BatchNotCleared == batch_cuts

\* batch_cuts = [] after process_one_batch in the loop.
BatchAfterProcessing == <<>>

\* process_one_batch returns to main(): in the loop batch_cuts = [] follows.
Return ==
  /\ pc = "ret"
  /\ IF final
       THEN pc' = "done" /\ UNCHANGED batch_cuts
       ELSE pc' = "loop" /\ batch_cuts' = BatchAfterProcessing
  /\ UNCHANGED <<pools, pool_calls,
                 raw_cuts, files, batch_size, pos, final, raw_data, aligned_data,
                 splited_data, align_tasks, split_tasks, opens, mismatch, out,
                 batches, events>>

Init ==
  /\ \E n \in 0..MaxStream :
       \E kinds \in [1..n -> CutKinds] :
         raw_cuts = [k \in 1..n |-> MakeCut(k, kinds[k])]
  \* only the files the manifest refers to matter to os.path.isfile
  /\ files \in SUBSET {raw_cuts[k].text_path : k \in 1..Len(raw_cuts)}
  /\ batch_size \in 1..MaxBatchSize
  /\ pos = 0
  /\ batch_cuts = <<>>
  /\ pc = "thread_pool"
  /\ pools = NoPools
  /\ pool_calls = {}
  /\ final = FALSE
  /\ raw_data = NoData
  /\ aligned_data = <<>>
  /\ splited_data = <<>>
  /\ align_tasks = <<>>
  /\ split_tasks = <<>>
  /\ opens = [p \in Paths |-> 0]
  /\ mismatch = FALSE
  /\ out = <<>>
  /\ batches = <<>>
  /\ events = <<>>

Next ==
  \/ CreateThreadPool
  \/ CreateProcessPool
  \/ MainAppend
  \/ MainProcess
  \/ MainFinal
  \/ MainExit
  \/ LoadData
  \/ AlignCall
  \/ AlignWorker
  \/ AlignReturn
  \/ SplitCall
  \/ SplitWorker
  \/ SplitReturn
  \/ Write
  \/ Return

Spec == Init /\ [][Next]_vars

\* ------------------------------------------------- write() on its own
\* The (cut index, supervision index) pairs that exist in a batch.
Tags(cuts) ==
  UNION {{<<i - 1, j - 1>> : j \in 1..Len(cuts[i].supervisions)} : i \in 1..Len(cuts)}

\* The entries a results list may hold for a batch: a tag of the batch with
\* 0..MaxSegs segments.
ResultEntries(cuts) ==
  {<<t, [s \in 1..c |-> Segment(t, s - 1)]>> : t \in Tags(cuts), c \in 0..MaxSegs}

\* write() called on any batch of 1..MaxBatchSize cuts and any results list of at
\* most MaxResults entries.
InitWrite ==
  /\ \E n \in 1..MaxBatchSize :
       \E kinds \in [1..n -> CutKinds] :
         raw_cuts = [k \in 1..n |-> MakeCut(k, kinds[k])]
  /\ batch_cuts = raw_cuts
  /\ batches = <<Ids(raw_cuts)>>
  /\ \E m \in 0..MaxResults :
       splited_data \in [1..m -> ResultEntries(raw_cuts)]
  /\ files = Paths
  /\ batch_size = Len(raw_cuts)
  /\ pos = Len(raw_cuts)
  /\ pc = "write"
  /\ final = TRUE
  /\ raw_data = NoData
  /\ aligned_data = <<>>
  /\ align_tasks = <<>>
  /\ split_tasks = <<>>
  /\ opens = [p \in Paths |-> 0]
  /\ mismatch = FALSE
  /\ out = <<>>
  /\ events = <<>>
  /\ pools = BothPools
  /\ pool_calls = {}

NextWrite == Write \/ Return

SpecWrite == InitWrite /\ [][NextWrite]_vars

\* ---------------------------------------------- vocabulary of the claims
\* The number of the running (or last) process_one_batch call.
CurBatch == Len(batches)

\* Stage `stage` of the current batch has been called / has returned.
Called(stage) ==
  \E i \in 1..Len(events) :
    events[i].batch = CurBatch /\ events[i].stage = stage /\ events[i].kind = "call"
Returned(stage) ==
  \E i \in 1..Len(events) :
    events[i].batch = CurBatch /\ events[i].stage = stage /\ events[i].kind = "return"

CalledStages == {st \in {"load_data", "align", "split", "write"} : Called(st)}

\* The cuts handed to the current process_one_batch call.
CurCuts == [k \in 1..Len(batches[CurBatch]) |-> raw_cuts[batches[CurBatch][k]]]

\* The write calls of batch b.
OutOf(b) == SelectSeq(out, LAMBDA w : w.batch = b)

\* process_one_batch has returned normally, or is about to.
ReturnedNormally == pc \in {"ret", "loop", "done"}

StageRank(stage) ==
  CASE stage = "load_data" -> 1
    [] stage = "align" -> 2
    [] stage = "split" -> 3
    [] stage = "write" -> 4

Perms(s) ==
  LET n == Len(s)
      bij == {f \in [1..n -> 1..n] : \A a, b \in 1..n : f[a] = f[b] => a = b}
  IN {[k \in 1..n |-> s[f[k]]] : f \in bij}

\* ------------------------------------------------------------------ C1
\* C1: when main() has finished, the concatenation of the batches handed to
\* process_one_batch, in processing order, equals the input stream: every cut
\* is in exactly one batch.
C1_EveryCutInOneBatch ==
  pc = "done" => Flatten(batches) = Ids(raw_cuts)

\* ------------------------------------------------------------------ C2
\* C2: when split() is invoked, the alignment list and the CutIndex list have
\* equal length and the k-th alignment was computed from the query document
\* the k-th CutIndex tags.
C2_AlignmentsMatchCutIndexes ==
  pc = "split" =>
    /\ Len(aligned_data) = Len(raw_data.cut_indexes)
    /\ \A k \in 1..Len(aligned_data) : aligned_data[k].doc = k - 1

\* ------------------------------------------------------------------ C3
\* C3: whenever load_data has returned a non-empty result, num_query_tokens
\* equals doc_splits[number of query documents].
C3_TokenCountMatchesSplitPoint ==
  DataLen(raw_data) # 0 =>
    raw_data.num_query_tokens
      = raw_data.doc_splits[Len(raw_data.cut_indexes) + 1]

\* A batch with two query documents whose load_data returned.
C3_Witness ==
  /\ Returned("load_data")
  /\ Len(raw_data.cut_indexes) >= 2
  /\ raw_data.num_query_tokens >= 2

\* ------------------------------------------------------------------ C4
\* C4: if the token-count check fails for a batch, load_data raises instead of
\* returning; align, split and write are not invoked for that batch and no
\* record is written for it.
C4_MismatchRaises ==
  mismatch =>
    /\ pc = "raised"
    /\ ~Returned("load_data")
    /\ CalledStages = {"load_data"}
    /\ OutOf(CurBatch) = <<>>

\* The check fails in the second batch of a run whose first batch wrote a record.
C4_Witness ==
  /\ mismatch
  /\ CurBatch = 2
  /\ out # <<>>

\* ------------------------------------------------------------------ C5
\* C5: the stage calls and returns are strictly nested and ordered: every call
\* is followed by its own return before anything else is called; within a
\* batch the stages are called in the order load_data, align, split, write,
\* none skipped; a later batch starts with load_data, after a return of the
\* batch before; and no pool task is in flight outside its own stage.
C5_StagesInOrder ==
  /\ \A i \in 1..Len(events) :
       IF i % 2 = 1
         THEN /\ events[i].kind = "call"
              /\ IF i = 1
                   THEN events[i].stage = "load_data" /\ events[i].batch = 1
                   ELSE /\ events[i - 1].kind = "return"
                        /\ IF events[i].batch = events[i - 1].batch
                             THEN StageRank(events[i].stage)
                                    = StageRank(events[i - 1].stage) + 1
                             ELSE /\ events[i].batch = events[i - 1].batch + 1
                                  /\ events[i].stage = "load_data"
         ELSE /\ events[i].kind \in {"return", "raise"}
              /\ events[i].stage = events[i - 1].stage
              /\ events[i].batch = events[i - 1].batch
  /\ (\E q \in 1..Len(align_tasks) : align_tasks[q] = "pending")
       => /\ pc = "align_wait"
          /\ events[Len(events)] = Event("align", "call")
  /\ (\E k \in 1..Len(split_tasks) : split_tasks[k].st = "pending")
       => /\ pc = "split_wait"
          /\ events[Len(events)] = Event("split", "call")
  /\ pc = "loop" => (events = <<>> \/ events[Len(events)].kind = "return")

\* The first batch ran all four stages and the second batch has started.
C5_Witness ==
  /\ CurBatch = 2
  /\ Called("align")
  /\ \E i \in 1..Len(events) : events[i].batch = 1 /\ events[i].stage = "write"

\* ------------------------------------------------------------------ C6
\* C6: a batch whose load_data result is empty calls only load_data; a batch
\* whose alignment list is empty calls only load_data and align; a batch whose
\* segmentation result is empty does not call write; in each case
\* process_one_batch returns normally, nothing is written for the batch, and
\* the run ends only when the whole stream has been fetched.
C6_ShortCircuit ==
  LET quiet == /\ ReturnedNormally
               /\ OutOf(CurBatch) = <<>>
               /\ (pc = "done" => pos = Len(raw_cuts))
  IN /\ (Returned("load_data") /\ DataLen(raw_data) = 0)
          => (CalledStages = {"load_data"} /\ quiet)
     /\ (Returned("align") /\ Len(aligned_data) = 0)
          => (CalledStages = {"load_data", "align"} /\ quiet)
     /\ (Returned("split") /\ Len(splited_data) = 0)
          => (CalledStages = {"load_data", "align", "split"} /\ quiet)

\* The second batch of a run returns with every query rejected, after a first
\* batch that wrote a record.
C6_Witness ==
  /\ pc = "ret"
  /\ CurBatch = 2
  /\ Returned("align")
  /\ Len(aligned_data) = 0
  /\ out # <<>>

\* ------------------------------------------------------------------ C7
\* C7: every record written carries both members of each text pair and the
\* segment's byte offsets: texts = [ref, hyp], pre_texts = [pre_ref, pre_hyp],
\* post_texts = [post_ref, post_hyp], begin_byte and end_byte unchanged.
C7_CustomCarriesTextPairs ==
  Returned("write") =>
    LET pairs == SegPairs(splited_data)
        written == OutOf(CurBatch)
    IN /\ Len(written) = Len(pairs)
       /\ \A k \in 1..Len(pairs) :
            written[k].cut.supervisions[1].custom
              = [texts |-> <<pairs[k].seg.ref, pairs[k].seg.hyp>>,
                 pre_texts |-> <<pairs[k].seg.pre_ref, pairs[k].seg.pre_hyp>>,
                 post_texts |-> <<pairs[k].seg.post_ref, pairs[k].seg.post_hyp>>,
                 begin_byte |-> pairs[k].seg.begin_byte,
                 end_byte |-> pairs[k].seg.end_byte]

\* ------------------------------------------------------------------ C8
\* C8: when a split worker has raised for one query of a batch, the batch is
\* not aborted: process_one_batch does not raise, once it has returned every
\* segment of every other query of the batch has been written, and the run
\* ends only when the whole stream has been fetched.
C8_WorkerErrorIsolated ==
  ((\E k \in 1..Len(split_tasks) : split_tasks[k].st = "failed")
     /\ SplitAllDone(split_tasks))
  => /\ pc # "raised"
     /\ (pc = "done" => pos = Len(raw_cuts))
     /\ ReturnedNormally =>
          \A k \in 1..Len(split_tasks) :
            \A s \in 1..split_tasks[k].n :
              \E w \in Range(OutOf(CurBatch)) :
                w.cut.supervisions[1].custom.texts[1]
                  = TaskSegments(raw_data, aligned_data[k], split_tasks[k])[s].ref

\* One worker raised, another query of the same batch produced a segment, and
\* process_one_batch has returned to the loop of main().
C8_Witness ==
  /\ pc = "loop"
  /\ \E k \in 1..Len(split_tasks) : split_tasks[k].st = "failed"
  /\ \E k \in 1..Len(split_tasks) : split_tasks[k].st = "done" /\ split_tasks[k].n > 0
  /\ OutOf(CurBatch) # <<>>

\* ------------------------------------------------------------------ C9
\* C9: for any two orders of the same (CutIndex, segments) result list, write()
\* emits the same set of records, identifiers included.
C9_WriteOrderIndependent ==
  pc = "write" =>
    \A perm \in Perms(splited_data) :
      Range(CutList(batch_cuts, perm)) = Range(CutList(batch_cuts, splited_data))

\* ----------------------------------------------------------------- C10
\* C10: once load_data has run for a batch, each path cited by a cut of the
\* batch whose file exists has been opened exactly once, and every other path
\* has not been opened.
C10_BooksOpenedOnce ==
  Called("load_data") =>
    \A p \in Paths :
      opens[p] = IF \E i \in 1..Len(CurCuts) :
                      CurCuts[i].text_path = p /\ p \in files
                   THEN 1 ELSE 0

\* Two cuts of the batch cite the same existing book, opened once.
C10_Witness ==
  /\ Called("load_data")
  /\ \E i, j \in 1..Len(CurCuts) :
       /\ i # j
       /\ CurCuts[i].text_path = CurCuts[j].text_path
       /\ CurCuts[i].text_path \in files
       /\ opens[CurCuts[i].text_path] = 1

\* ----------------------------------------------------------------- C11
\* C11: a cut whose reference file is missing is skipped without raising: no
\* CutIndex of the result names it and its path is not opened, while every
\* supervision with a non-empty alignment of every cut of the batch whose file is
\* readable has its CutIndex in the result.
C11_MissingBookSkipped ==
  (Called("load_data") /\ ~mismatch) =>
    /\ pc # "raised"
    /\ \A i \in 1..Len(CurCuts) :
         IF CurCuts[i].text_path \in files
           THEN \A j \in 1..Len(CurCuts[i].supervisions) :
                  CurCuts[i].supervisions[j].ntokens > 0
                    => <<i - 1, j - 1>> \in Range(raw_data.cut_indexes)
           ELSE /\ \A t \in Range(raw_data.cut_indexes) : t[1] # i - 1
                /\ opens[CurCuts[i].text_path] = 0

\* A batch whose first cut has no book and whose second cut has one and a
\* non-empty supervision: load_data has returned the second cut's documents.
C11_Witness ==
  /\ Returned("load_data")
  /\ Len(CurCuts) = 2
  /\ ~(CurCuts[1].text_path \in files)
  /\ CurCuts[2].text_path \in files
  /\ \E t \in Range(raw_data.cut_indexes) : t[1] = 1

\* ----------------------------------------------------------------- C12
\* C12: among the records write() has written for a batch, those of one original
\* cut carry the identifiers <id>_0, <id>_1, <id>_2, ... in the order written,
\* without gaps, whatever supervisions they come from and whatever other cuts
\* wrote in between; and the k-th record carries the id of the cut its result
\* entry is tagged with.
C12_SequentialSubIds ==
  Returned("write") =>
    LET pairs == SegPairs(splited_data)
        written == OutOf(CurBatch)
    IN /\ Len(written) = Len(pairs)
       /\ \A k \in 1..Len(pairs) :
            /\ written[k].cut.id[1] = CurCuts[pairs[k].cut_indexes[1] + 1].id
            /\ written[k].cut.supervisions[1].custom.texts[1] = pairs[k].seg.ref
       /\ \A c \in Range(Ids(CurCuts)) :
            LET mine == SelectSeq(written, LAMBDA w : w.cut.id[1] = c)
            IN \A n \in 1..Len(mine) : mine[n].cut.id[2] = n - 1

\* Two supervisions of one cut and a supervision of another cut each wrote a
\* record: the first cut's counter has reached 1, the other cut's is 0.
C12_Witness ==
  /\ Returned("write")
  /\ \E a, b, c \in Range(OutOf(CurBatch)) :
       /\ a.cut.id[1] = b.cut.id[1]
       /\ a.cut.id[2] = 0
       /\ b.cut.id[2] = 1
       /\ a.cut.supervisions[1].speaker # b.cut.supervisions[1].speaker
       /\ c.cut.id[1] # a.cut.id[1]

\* ----------------------------------------------------------------- C13
\* C13: write() issues exactly one cuts_writer.write call per segment of the
\* results, in the order the segments appear in the results; an entry with an
\* empty segment list adds no call.
C13_OneWritePerSegment ==
  Returned("write") =>
    LET segs == Flatten([r \in 1..Len(splited_data) |-> splited_data[r][2]])
        tags == Flatten([r \in 1..Len(splited_data) |->
                           [s \in 1..Len(splited_data[r][2]) |-> splited_data[r][1]]])
        written == OutOf(CurBatch)
    IN /\ Len(written)
            = SumSeq([r \in 1..Len(splited_data) |-> Len(splited_data[r][2])])
       /\ \A k \in 1..Len(written) :
            /\ written[k].cut.supervisions[1].custom.texts = <<segs[k].ref, segs[k].hyp>>
            /\ written[k].cut.start = segs[k].start_time
            /\ written[k].cut.id[1] = CurCuts[tags[k][1] + 1].id

\* write() has returned for results that hold an entry without segments in
\* front of an entry with one.
C13_Witness ==
  /\ Returned("write")
  /\ Len(splited_data) = 2
  /\ splited_data[1][2] = <<>>
  /\ splited_data[2][2] # <<>>
  /\ Len(out) = 1

\* ----------------------------------------------------------------- C14
\* C14: among the write calls of a batch, the last one and only the last one
\* asks for a flush.
C14_FlushOnLastOnly ==
  \A b \in 1..Len(batches) :
    LET calls == OutOf(b)
    IN \A i \in 1..Len(calls) : calls[i].flush = (i = Len(calls))

\* A batch has written two records.
C14_Witness ==
  /\ Returned("write")
  /\ Len(OutOf(CurBatch)) >= 2

\* ----------------------------------------------------------------- C15
\* C15: in a non-empty result of load_data, cut_indexes has one entry per query
\* document; its k-th entry (i, j) names a supervision with a non-empty alignment
\* of a cut with a readable book, and the k-th document has that supervision's
\* tokens; the entries are exactly those supervisions, each once, in strictly
\* increasing lexicographic order.
C15_CutIndexesTagDocuments ==
  (Returned("load_data") /\ DataLen(raw_data) # 0) =>
    LET ci == raw_data.cut_indexes
        splits == raw_data.doc_splits
        eligible ==
          {t \in Tags(CurCuts) :
             /\ CurCuts[t[1] + 1].text_path \in files
             /\ CurCuts[t[1] + 1].supervisions[t[2] + 1].ntokens > 0}
    IN /\ Len(splits) = Len(ci) + 1
       /\ \A k \in 1..Len(ci) :
            /\ ci[k] \in eligible
            /\ splits[k + 1] - splits[k]
                 = CurCuts[ci[k][1] + 1].supervisions[ci[k][2] + 1].ntokens
       /\ Range(ci) = eligible
       /\ \A k \in 1..(Len(ci) - 1) :
            \/ ci[k][1] < ci[k + 1][1]
            \/ ci[k][1] = ci[k + 1][1] /\ ci[k][2] < ci[k + 1][2]

\* The first cut's first supervision has an empty alignment: the result starts
\* with (0, 1) and goes on with the second cut's supervisions.
C15_Witness ==
  /\ Returned("load_data")
  /\ Len(raw_data.cut_indexes) = 3
  /\ raw_data.cut_indexes[1] = <<0, 1>>
  /\ raw_data.cut_indexes[2] = <<1, 0>>

\* ----------------------------------------------------------------- C16
\* C16: every step that appends to the output is the controller's write stage,
\* taken after align and split have returned for the batch, with no alignment
\* task and no split task pending, and it leaves the pools' tasks alone.
C16_WriterOnlyAfterBarriers ==
  [][out' # out =>
       /\ pc = "write"
       /\ pc' = "ret"
       /\ Returned("align")
       /\ Returned("split")
       /\ \A q \in 1..Len(align_tasks) : align_tasks[q] # "pending"
       /\ \A k \in 1..Len(split_tasks) : split_tasks[k].st # "pending"
       /\ UNCHANGED <<align_tasks, split_tasks>>]_vars

\* Records have been appended for a batch that ran two alignment tasks and two
\* split tasks.
C16_Witness ==
  /\ Returned("write")
  /\ Len(align_tasks) >= 2
  /\ Len(split_tasks) >= 2
  /\ OutOf(CurBatch) # <<>>

\* ----------------------------------------------------------------- C17
\* C17: the record written for a segment of a result entry tagged (i, j) has
\* the channel, language and speaker of supervision j of cut i of the batch, the
\* recording and text_path of cut i, a supervision starting at 0 with the
\* segment's duration, and the segment's start_time and duration as its own.
C17_RecordInheritsFromSource ==
  Returned("write") =>
    LET pairs == SegPairs(splited_data)
        written == OutOf(CurBatch)
    IN /\ Len(written) = Len(pairs)
       /\ \A k \in 1..Len(pairs) :
            LET cut == CurCuts[pairs[k].cut_indexes[1] + 1]
                src == cut.supervisions[pairs[k].cut_indexes[2] + 1]
                seg == pairs[k].seg
                new == written[k].cut
                sup == new.supervisions[1]
            IN /\ Len(new.supervisions) = 1
               /\ sup.channel = src.channel
               /\ sup.language = src.language
               /\ sup.speaker = src.speaker
               /\ sup.recording_id = cut.recording
               /\ new.recording = cut.recording
               /\ new.custom.text_path = cut.text_path
               /\ sup.start = 0
               /\ sup.duration = seg.duration
               /\ new.start = seg.start_time
               /\ new.duration = seg.duration

\* A record has been written for the second supervision of the second cut of
\* a batch.
C17_Witness ==
  /\ Returned("write")
  /\ \E r \in 1..Len(splited_data) : splited_data[r][1] = <<1, 1>>

\* ----------------------------------------------------------------- C18
\* C18: every batch handed to process_one_batch holds between 1 and batch_size
\* cuts; every batch but the one processed after the loop holds exactly
\* batch_size; and when main() ends with cuts left in batch_cuts, these were
\* processed as the final batch.
C18_BatchSizes ==
  /\ \A b \in 1..Len(batches) :
       /\ Len(batches[b]) >= 1
       /\ Len(batches[b]) <= batch_size
       /\ Len(batches[b]) = batch_size \/ (b = Len(batches) /\ final)
  /\ (pc = "done" /\ batch_cuts # <<>>)
       => /\ final
          /\ batches[Len(batches)] = Ids(batch_cuts)

\* main() has ended after a batch processed in the loop and the remainder
\* processed as the final batch.
C18_Witness ==
  /\ pc = "done"
  /\ final
  /\ Len(batches) = 2
  /\ batches[2] = Ids(batch_cuts)

\* ----------------------------------------------------------------- C19
\* C19: at most one ThreadPool and one Pool are ever created; once a batch has
\* been handed to process_one_batch both exist; every call of process_one_batch
\* got that ThreadPool as thread_pool and that Pool as process_pool; every align
\* call got the ThreadPool alone and every split call the Pool alone.
C19_PoolsCreatedOnce ==
  LET created == pools.created
      threads == {p \in 1..Len(created) : created[p] = "ThreadPool"}
      procs == {p \in 1..Len(created) : created[p] = "Pool"}
  IN /\ Cardinality(threads) <= 1
     /\ Cardinality(procs) <= 1
     /\ Len(created) <= 2
     /\ batches # <<>> => (Cardinality(threads) = 1 /\ Cardinality(procs) = 1)
     /\ \A b \in 1..Len(batches) :
          \E c \in pool_calls : c.batch = b /\ c.callee = "process_one_batch"
     /\ \A c \in pool_calls :
          CASE c.callee = "process_one_batch" ->
                 Len(c.args) = 2 /\ c.args[1] \in threads /\ c.args[2] \in procs
            [] c.callee = "align" -> Len(c.args) = 1 /\ c.args[1] \in threads
            [] c.callee = "split" -> Len(c.args) = 1 /\ c.args[1] \in procs

\* The second batch of a run has reached split: both batches called align and
\* split with the pools created at the start.
C19_Witness ==
  /\ CurBatch = 2
  /\ \E c \in pool_calls : c.batch = 1 /\ c.callee = "split"
  /\ \E c \in pool_calls : c.batch = 2 /\ c.callee = "split"

\* ----------------------------------------------------------------- C20
\* C20: the identifiers of the records written during a run are pairwise
\* distinct (the cuts of the stream have distinct ids).
C20_RecordIdsDistinct ==
  \A a, b \in 1..Len(out) :
    a # b => /\ out[a].cut.id # out[b].cut.id
             /\ out[a].cut.supervisions[1].id # out[b].cut.supervisions[1].id

\* Two batches have written a record each, both numbered 0 by a fresh counter.
C20_Witness ==
  \E a, b \in 1..Len(out) :
    /\ out[a].batch = 1
    /\ out[b].batch = 2
    /\ out[a].cut.id[2] = 0
    /\ out[b].cut.id[2] = 0

====
